---- MODULE Spec2Model ----
(***************************************************************************)
(* Model of main.py: the Kokoro TTS wrapper.                               *)
(*                                                                         *)
(* One run of main() is modelled: the streaming pipeline                   *)
(* (stream_with_prefetch: fallback mode and one-ahead prefetch mode, with  *)
(* the single background worker of ThreadPoolExecutor(max_workers=1)) and  *)
(* the save-to-file path (synthesize every chunk, then concat_wavs).       *)
(*                                                                         *)
(* Indices follow the source: futures/wavs are indexed by the Python index *)
(* idx in 0..n-1, the chunk ("segment") number is idx+1, and a temporary   *)
(* file is identified by the number in its name (prefetch_%04d / part_%04d)*)
(***************************************************************************)
EXTENDS Integers, Sequences, FiniteSets, TLC

\* ---- bounds of the model ------------------------------------------------
MaxN == 4          \* at most MaxN chunks
MaxRc == 2         \* exit statuses of the external commands range over 0..MaxRc
MaxFrames == 2     \* a synthesized part file holds 1..MaxFrames frames
MaxText == 1       \* choose_preset: the text holds at most MaxText characters
MaxLen == 5        \* segmenter: the input text holds at most MaxLen characters
MaxChars == 3      \* segmenter: max_chars ranges over 1..MaxChars

Idx == 0 .. (MaxN - 1)
FileNo == 1 .. MaxN

\* ---- the external commands (opaque collaborators) -----------------------
\* What one subprocess.run of the engine/player can do: raise (the command
\* cannot be started), or return a status; an engine call with an outfile may
\* leave a file at the target path whatever its status.
StreamOutcomes ==
    { [raised |-> FALSE, rc |-> c, wrote |-> FALSE] : c \in 0 .. MaxRc }
    \cup { [raised |-> TRUE, rc |-> 0, wrote |-> FALSE] }

FileOutcomes ==
    { [raised |-> FALSE, rc |-> c, wrote |-> w] : c \in 0 .. MaxRc, w \in BOOLEAN }
    \cup { [raised |-> TRUE, rc |-> 0, wrote |-> FALSE] }

\* Audio formats (nchannels, sampwidth, framerate, comptype, compname) of the
\* files the engine writes; two distinct ones suffice to tell them apart.
Formats == { "mono16_24k", "mono16_48k" }

\* The WAV file the engine writes for chunk number c: its frames carry the
\* chunk number, so the order of frame data is observable.
RECURSIVE Rep(_, _)
Rep(x, k) == IF k = 0 THEN << >> ELSE << x >> \o Rep(x, k - 1)

WavOf(c) ==
    { [fmt |-> f, frames |-> Rep(c, k)] : f \in Formats, k \in 1 .. MaxFrames }

NoWav == [fmt |-> "none", frames |-> << >>]

VARIABLES
    n,          \* len(chunks)
    player,     \* find_player() is not None
    output,     \* args.output is given
    pc,         \* position of the foreground thread
    i,          \* loop variable of the running loop
    tmpdir,     \* "none" | "exists" | "removed"
    futures,    \* futures[idx]: [st, rc]
    wavs,       \* stream_with_prefetch: wavs[idx] = file number, 0 for None
    files,      \* numbers of the temporary files that exist in tmpdir
    queue,      \* work queue of the executor (submitted, not started)
    running,    \* idx of the tasks the worker threads are executing
    fg,         \* external call the foreground thread is blocked in
    outLog,     \* audio outputs started, in order: <<kind, chunk number>>
    failures,   \* every failed external call / concatenation so far
    exc,        \* exception propagating out of the run (SystemExit or other)
    exitStatus, \* process exit status, -1 while running
    main_wavs,  \* main: list of part file numbers appended so far
    content,    \* content[k]: WAV data of part file k
    outfile,    \* what was written at args.output
    rmFailed,   \* a deletion failed during teardown
    \* choose_preset
    args,       \* the parsed flags: voice, lang ("" for None), en_f .. zh_m
    ptext,      \* the text handed to choose_preset (code points)
    chosen,     \* the (voice, lang) returned
    ppc,        \* "idle" | "start" | "done"
    \* normalize_text / split_into_sentences / chunk_text
    raw,        \* the input text (characters)
    max_chars,  \* args.max_chars
    text,       \* normalize_text(raw)
    sentences,  \* split_into_sentences(text)
    pos,        \* number of sentences the loop of chunk_text has consumed
    chunks,     \* chunks closed so far
    cur,        \* the running buffer
    groups,     \* the sentences packed into each closed chunk and into cur
    tpc         \* "idle" | "start" | "split" | "loop" | "done"

presetVars == << args, ptext, chosen, ppc >>
textVars == << raw, max_chars, text, sentences, pos, chunks, cur, groups, tpc >>
otherVars == << presetVars, textVars >>

vars == << n, player, output, pc, i, tmpdir, futures, wavs, files, queue,
           running, fg, outLog, failures, exc, exitStatus, main_wavs,
           content, outfile, rmFailed, presetVars, textVars >>

poolVars == << futures, wavs, queue, running >>
saveVars == << main_wavs, content, outfile >>

NoFuture == [st |-> "None", rc |-> 0]
NoCall == [kind |-> "none", chunk |-> 0]
NoExc == [kind |-> "none", chunk |-> 0, code |-> 0]

\* sys.exit(message): chunk/code are what the message names (0: not named)
SysExit(chunk, code) == [kind |-> "SystemExit", chunk |-> chunk, code |-> code]
\* any other exception (traceback; names neither chunk nor status)
Raised == [kind |-> "Exception", chunk |-> 0, code |-> 0]

Failure(stage, chunk, o) ==
    [stage |-> stage, chunk |-> chunk, rc |-> o.rc, raised |-> o.raised]

\* the call failed: it raised or returned a non-zero status
Failed(o) == o.raised \/ o.rc # 0

\* mutant: only status 1 is taken for a failure
ExitOnRcOne(rc) == rc = 1

\* lines 114, 135, 153, 203, 212: "if rc != 0: sys.exit(...)"
ExitOnRc(rc) == rc # 0

\* the call ends the run: its exception propagates, or its status is
\* turned into sys.exit
Aborts(o) == o.raised \/ ExitOnRc(o.rc)

\* the interpreter's exit status for a run that ends with exception e
StatusOf(e) == IF e.kind = "none" THEN 0 ELSE 1

\* choose_preset is not under study in this run
PresetIdle ==
    /\ args = [voice |-> "", lang |-> "", en_f |-> FALSE, en_m |-> FALSE,
               zh_f |-> FALSE, zh_m |-> FALSE]
    /\ ptext = << >>
    /\ chosen = << "", "" >>
    /\ ppc = "idle"

\* the segmenter is not under study in this run
TextIdle ==
    /\ raw = << >> /\ max_chars = 0 /\ text = << >>
    /\ sentences = << >> /\ pos = 0 /\ chunks = << >> /\ cur = << >>
    /\ groups = << >>
    /\ tpc = "idle"

\* the pipeline before main dispatches (line 192), pc left open
PipelineFresh ==
    /\ i = 0
    /\ tmpdir = "none"
    /\ futures = [k \in Idx |-> NoFuture]
    /\ wavs = [k \in Idx |-> 0]
    /\ files = {}
    /\ queue = << >>
    /\ running = {}
    /\ fg = NoCall
    /\ outLog = << >>
    /\ failures = {}
    /\ exc = NoExc
    /\ exitStatus = -1
    /\ main_wavs = << >>
    /\ content = [k \in FileNo |-> NoWav]
    /\ outfile = NoWav
    /\ rmFailed = FALSE

\* the pipeline is not under study in this run
PipelineIdle ==
    /\ n = 0 /\ player = FALSE /\ output = FALSE /\ pc = "idle"
    /\ PipelineFresh

Init ==
    /\ n \in 0 .. MaxN
    /\ player \in BOOLEAN
    /\ output \in BOOLEAN
    /\ pc = "start"
    /\ PipelineFresh
    /\ PresetIdle
    /\ TextIdle

\* ---- stream_with_prefetch ------------------------------------------------

\* mutant: the one-chunk case is not sent to the fallback
UseFallbackNoPlayerOnly == player = FALSE

\* line 110: fall back to streaming each chunk
UseFallback == player = FALSE \/ n = 1

\* line 130
max_workers == 1

\* mutants: the first prefetch is issued for the wrong index
FirstPrefetchLate == 1 + 1
FirstPrefetchEarly == 1 - 1

\* line 133: the index handed to the first prefetch
FirstPrefetch == 1

\* mutant: the play loop starts one index too far
LoopStartSkip == 1 + 1

\* line 139: range(1, n) starts at index 1 (chunk 2)
LoopStart == 1

\* mutant: the prefetch runs two chunks ahead
NextPrefetchSkip(j) == j + 2

\* line 148: the index handed to the prefetch issued before playing chunk idx j
NextPrefetch(j) == j + 1

\* lines 122-127: prefetch(idx, executor)
prefetch(idx) ==
    IF idx < n
    THEN /\ futures' = [futures EXCEPT ![idx] = [st |-> "pending", rc |-> 0]]
         /\ queue' = Append(queue, idx)
         /\ wavs' = [wavs EXCEPT ![idx] = idx + 1]
    ELSE UNCHANGED << futures, queue, wavs >>

\* start of a foreground audio output (direct streaming or play call)
BeginOutput(kind, chunk) ==
    /\ fg' = [kind |-> kind, chunk |-> chunk]
    /\ outLog' = Append(outLog, << kind, chunk >>)

\* lines 106-116 (entry, fallback) and 118-134 (prefetch mode up to the
\* blocking run_kokoro of chunk 1)
StreamEnter ==
    /\ pc = "start"
    /\ ~output
    /\ IF UseFallback
       THEN /\ IF n >= 1
               THEN /\ BeginOutput("stream", 1)
                    /\ i' = 1
                    /\ pc' = "fb_call"
                    /\ UNCHANGED exitStatus
               ELSE /\ pc' = "done"
                    /\ exitStatus' = 0
                    /\ UNCHANGED << fg, outLog, i >>
            /\ UNCHANGED << tmpdir, poolVars, exc >>
       ELSE /\ tmpdir' = "exists"
            /\ IF n = 0
               THEN \* line 132: chunks[0] raises IndexError
                    /\ exc' = Raised
                    /\ pc' = "pool_exit"
                    /\ UNCHANGED << poolVars, fg, outLog >>
               ELSE /\ prefetch(FirstPrefetch)
                    /\ BeginOutput("stream", 1)
                    /\ pc' = "stream1"
                    /\ UNCHANGED << running, exc >>
            /\ UNCHANGED << i, exitStatus >>
    /\ UNCHANGED << otherVars, n, player, output, files, failures, saveVars, rmFailed >>

\* lines 111-116: the blocking run_kokoro of the fallback loop returns
FbReturn(o) ==
    /\ pc = "fb_call"
    /\ failures' = IF Failed(o) THEN failures \cup { Failure("stream", i, o) }
                   ELSE failures
    /\ IF Aborts(o)
       THEN \* line 115 is outside the try block: the process exits at once
            /\ exc' = IF o.raised THEN Raised ELSE SysExit(i, o.rc)
            /\ exitStatus' = StatusOf(exc')
            /\ fg' = NoCall
            /\ pc' = "done"
            /\ UNCHANGED << i, outLog >>
       ELSE /\ IF i < n
               THEN /\ BeginOutput("stream", i + 1)
                    /\ i' = i + 1
                    /\ pc' = "fb_call"
                    /\ UNCHANGED exitStatus
               ELSE /\ fg' = NoCall
                    /\ pc' = "done"
                    /\ exitStatus' = 0
                    /\ UNCHANGED << i, outLog >>
            /\ UNCHANGED exc
    /\ UNCHANGED << otherVars, n, player, output, tmpdir, poolVars, files, saveVars,
                    rmFailed >>

\* lines 134-136: the direct streaming of chunk 1 returns
Stream1Return(o) ==
    /\ pc = "stream1"
    /\ fg' = NoCall
    /\ failures' = IF Failed(o) THEN failures \cup { Failure("stream", 1, o) }
                   ELSE failures
    /\ IF Aborts(o)
       THEN /\ exc' = IF o.raised THEN Raised ELSE SysExit(1, o.rc)
            /\ pc' = "pool_exit"
            /\ UNCHANGED i
       ELSE /\ IF LoopStart < n
               THEN i' = LoopStart /\ pc' = "wait"
               ELSE i' = i /\ pc' = "final_wait"
            /\ UNCHANGED exc
    /\ UNCHANGED << otherVars, n, player, output, tmpdir, poolVars, files, outLog,
                    exitStatus, saveVars, rmFailed >>

\* line 143: fut.result() re-raises the task's exception; the status the
\* task returned is the value of the call, which the caller drops
ResultRaises(fut) == fut.st = "raised"

\* mutant: the foreground does not wait for the task
ResultReadyNoWait(fut) == TRUE

\* mutant: the foreground waits only until the task has been started
ResultReadyWhenStarted(fut) == fut.st \in { "running", "done", "raised" }

\* line 143: fut.result() returns (or raises) once the task has finished
ResultReady(fut) == fut.st \in { "done", "raised" }

\* line 144
PrefetchMissing(idx) == wavs[idx] = 0 \/ wavs[idx] \notin files

\* lines 141-152: wait for the prefetch of chunk i+1, issue the next
\* prefetch, start playing
LoopWait ==
    /\ pc = "wait"
    /\ futures[i].st # "None" => ResultReady(futures[i])
    /\ IF ResultRaises(futures[i])
       THEN /\ exc' = Raised
            /\ pc' = "pool_exit"
            /\ UNCHANGED << poolVars, fg, outLog >>
       ELSE IF PrefetchMissing(i)
       THEN /\ exc' = SysExit(i + 1, 0)
            /\ pc' = "pool_exit"
            /\ UNCHANGED << poolVars, fg, outLog >>
       ELSE /\ prefetch(NextPrefetch(i))
            /\ BeginOutput("play", i + 1)
            /\ pc' = "play"
            /\ UNCHANGED << running, exc >>
    /\ UNCHANGED << otherVars, n, player, output, i, tmpdir, files, failures,
                    exitStatus, saveVars, rmFailed >>

\* lines 152-154: play_wav returns
PlayReturn(o) ==
    /\ pc = "play"
    /\ fg' = NoCall
    /\ failures' = IF Failed(o) THEN failures \cup { Failure("play", i + 1, o) }
                   ELSE failures
    /\ IF Aborts(o)
       THEN /\ exc' = IF o.raised THEN Raised ELSE SysExit(i + 1, o.rc)
            /\ pc' = "pool_exit"
            /\ UNCHANGED i
       ELSE /\ IF i + 1 < n
               THEN i' = i + 1 /\ pc' = "wait"
               ELSE i' = i /\ pc' = "final_wait"
            /\ UNCHANGED exc
    /\ UNCHANGED << otherVars, n, player, output, tmpdir, poolVars, files, outLog,
                    exitStatus, saveVars, rmFailed >>

\* lines 157-158
FinalWait ==
    /\ pc = "final_wait"
    /\ IF n >= 2 /\ futures[n - 1].st # "None"
       THEN /\ ResultReady(futures[n - 1])
            /\ exc' = IF ResultRaises(futures[n - 1]) THEN Raised ELSE exc
       ELSE UNCHANGED exc
    /\ pc' = "pool_exit"
    /\ UNCHANGED << otherVars, n, player, output, i, tmpdir, poolVars, files, fg, outLog,
                    failures, exitStatus, saveVars, rmFailed >>

\* mutant: the executor is left without waiting for its tasks
ShutdownNoWait == TRUE

\* line 130, leaving the with block: shutdown(wait=True) returns when the
\* queue is drained and every worker is idle
ShutdownWaits == queue = << >> /\ running = {}

\* line 130: the with block is left, normally or by an exception
PoolExit ==
    /\ pc = "pool_exit"
    /\ ShutdownWaits
    /\ pc' = "cleanup"
    /\ UNCHANGED << otherVars, n, player, output, i, tmpdir, poolVars, files, fg, outLog,
                    failures, exc, exitStatus, saveVars, rmFailed >>

\* mutant: the cleanup loop leaves out the last entry of wavs
CleanupTargetsButLast == { wavs[k] : k \in 0 .. (n - 2) } \cap files

\* lines 163-165: the files the cleanup loop removes
CleanupTargets == { wavs[k] : k \in Idx } \cap files

\* mutant: an exception of the teardown replaces the outcome of the run
AfterCleanupMasking(e, failed) == IF failed THEN Raised ELSE e

\* lines 167-168, 220-223: "except Exception: pass", the exception that was
\* propagating (e) goes on propagating whether or not a deletion raised
AfterCleanup(e, failed) == e

\* the failure injected into the teardown: none (0), the removal of one
\* file (its number), or the rmdir
RmdirFail == MaxN + 1

\* lines 160-168: one try block around the loop and the rmdir, so the first
\* failing deletion ends the cleanup; the exception is swallowed
Cleanup(failAt) ==
    /\ pc = "cleanup"
    /\ failAt \in { 0, RmdirFail } \cup CleanupTargets
    /\ IF failAt \in CleanupTargets
       THEN /\ files' = files \ { f \in CleanupTargets : f < failAt }
            /\ UNCHANGED tmpdir
            /\ rmFailed' = TRUE
       ELSE /\ files' = files \ CleanupTargets
            /\ IF failAt = RmdirFail \/ files' # {}
               THEN UNCHANGED tmpdir /\ rmFailed' = (failAt = RmdirFail)
               ELSE tmpdir' = "removed" /\ rmFailed' = FALSE
    /\ pc' = "done"
    /\ exc' = AfterCleanup(exc, failAt # 0 \/ files' # {})
    /\ exitStatus' = StatusOf(exc')
    /\ UNCHANGED << otherVars, n, player, output, i, poolVars, fg, outLog, failures,
                    saveVars >>

\* ---- the worker thread(s) of the executor --------------------------------

\* a worker takes the next task when fewer than max_workers are busy
BgStart ==
    /\ queue # << >>
    /\ Cardinality(running) < max_workers
    /\ running' = running \cup { Head(queue) }
    /\ queue' = Tail(queue)
    /\ futures' = [futures EXCEPT ![Head(queue)].st = "running"]
    /\ UNCHANGED << otherVars, n, player, output, pc, i, tmpdir, wavs, files, fg,
                    outLog, failures, exc, exitStatus, saveVars, rmFailed >>

\* lines 97-98, 43-50: the engine running in the worker creates its output
\* file, which is on disk, incomplete, while the call goes on
BgCreate(idx) ==
    /\ idx \in running
    /\ idx + 1 \notin files
    /\ files' = files \cup { idx + 1 }
    /\ UNCHANGED << otherVars, n, player, output, pc, i, tmpdir, poolVars, fg,
                    outLog, failures, exc, exitStatus, saveVars, rmFailed >>

\* lines 97-98: synth_to_wav(chunks[idx], prefetch_<idx+1>.wav, ...) returns
\* in the worker; the future records the status or the exception
BgReturn(idx, o) ==
    /\ idx \in running
    /\ running' = running \ { idx }
    /\ files' = IF o.wrote THEN files \cup { idx + 1 } ELSE files \ { idx + 1 }
    /\ futures' = [futures EXCEPT
                     ![idx] = [st |-> IF o.raised THEN "raised" ELSE "done",
                               rc |-> o.rc]]
    /\ failures' = IF Failed(o) \/ ~o.wrote
                   THEN failures \cup { Failure("prefetch", idx + 1, o) }
                   ELSE failures
    /\ UNCHANGED << otherVars, n, player, output, pc, i, tmpdir, wavs, queue, fg,
                    outLog, exc, exitStatus, saveVars, rmFailed >>

\* ---- concat_wavs ----------------------------------------------------------

\* wave's getparams(): (nchannels, sampwidth, framerate, nframes, comptype,
\* compname); the frame count is one of the compared fields
getparams(w) == [fmt |-> w.fmt, nframes |-> Len(w.frames)]

RECURSIVE Flatten(_)
Flatten(fs) == IF fs = << >> THEN << >> ELSE Head(fs).frames \o Flatten(Tail(fs))

Min(S) == CHOOSE x \in S : \A y \in S : x <= y

\* mutant: only the number of frames is compared
ParamsDifferFramesOnly(w, params) == Len(w.frames) # params.nframes

\* line 60: the check made on every file after the first
ParamsDiffer(w, params) == getparams(w) # params

\* lines 52-66. infiles[k] is the WAV at the k-th path, NoWav when no file is
\* there. The result is the error raised, or the file written at outfile.
concat_wavs(infiles) ==
    IF infiles = << >>
    THEN [err |-> "ValueError", out |-> NoWav]
    ELSE LET params == getparams(infiles[1])
             bad == { k \in 1 .. Len(infiles) :
                        \/ infiles[k] = NoWav
                        \/ ParamsDiffer(infiles[k], params) }
         IN  IF bad = {}
             THEN [err |-> "none",
                   out |-> [fmt |-> params.fmt, frames |-> Flatten(infiles)]]
             ELSE IF infiles[Min(bad)] = NoWav
             THEN [err |-> "FileNotFoundError", out |-> NoWav]
             ELSE [err |-> "RuntimeError", out |-> NoWav]

\* ---- main: the save-to-file path -----------------------------------------

\* the part files named by main's wavs list, as concat_wavs finds them
PartsOnDisk ==
    [k \in 1 .. Len(main_wavs) |->
        IF main_wavs[k] \in files THEN content[main_wavs[k]] ELSE NoWav]

\* lines 208-211 / 216: start the engine call of chunk j, or leave the loop
SaveNext(j) ==
    IF j <= n
    THEN fg' = [kind |-> "synth", chunk |-> j] /\ i' = j /\ pc' = "save_call"
    ELSE fg' = NoCall /\ i' = i /\ pc' = "concat"

\* lines 192, 198-202, 208-211
SaveEnter ==
    /\ pc = "start"
    /\ output
    /\ tmpdir' = "exists"
    /\ IF n = 1
       THEN fg' = [kind |-> "synth", chunk |-> 1] /\ i' = i /\ pc' = "save_single"
       ELSE SaveNext(1)
    /\ UNCHANGED << otherVars, n, player, output, poolVars, files, outLog, failures, exc,
                    exitStatus, saveVars, rmFailed >>

\* lines 202-206: the single engine call writing args.output returns
SaveSingleReturn(o, w) ==
    /\ pc = "save_single"
    /\ fg' = NoCall
    /\ outfile' = IF o.wrote THEN w ELSE outfile
    /\ failures' = IF Failed(o) THEN failures \cup { Failure("synth", 1, o) }
                   ELSE failures
    /\ IF Aborts(o)
       THEN exc' = IF o.raised THEN Raised ELSE SysExit(0, o.rc)
       ELSE UNCHANGED exc
    /\ pc' = "save_cleanup"
    /\ UNCHANGED << otherVars, n, player, output, i, tmpdir, poolVars, files, outLog,
                    exitStatus, main_wavs, content, rmFailed >>

\* lines 211-214: the engine call of chunk i returns
SaveCallReturn(o, w) ==
    /\ pc = "save_call"
    /\ files' = IF o.wrote THEN files \cup { i } ELSE files
    /\ content' = IF o.wrote THEN [content EXCEPT ![i] = w] ELSE content
    /\ failures' = IF Failed(o) THEN failures \cup { Failure("synth", i, o) }
                   ELSE failures
    /\ IF Aborts(o)
       THEN /\ exc' = IF o.raised THEN Raised ELSE SysExit(i, o.rc)
            /\ fg' = NoCall
            /\ pc' = "save_cleanup"
            /\ UNCHANGED << i, main_wavs >>
       ELSE /\ main_wavs' = Append(main_wavs, i)
            /\ SaveNext(i + 1)
            /\ UNCHANGED exc
    /\ UNCHANGED << otherVars, n, player, output, tmpdir, poolVars, outLog, exitStatus,
                    outfile, rmFailed >>

\* line 216
Concat ==
    /\ pc = "concat"
    /\ LET r == concat_wavs(PartsOnDisk)
       IN  IF r.err = "none"
           THEN /\ outfile' = r.out
                /\ UNCHANGED << failures, exc >>
           ELSE /\ failures' = failures \cup
                      { [stage |-> "concat", chunk |-> 0, rc |-> 0, raised |-> TRUE] }
                /\ exc' = [kind |-> r.err, chunk |-> 0, code |-> 0]
                /\ UNCHANGED outfile
    /\ pc' = "save_cleanup"
    /\ UNCHANGED << otherVars, n, player, output, i, tmpdir, poolVars, files, fg, outLog,
                    exitStatus, main_wavs, content, rmFailed >>

Range(s) == { s[k] : k \in 1 .. Len(s) }

\* lines 219-221: the files main's cleanup loop tries to remove
SaveCleanupTargets == Range(main_wavs) \cap files

\* lines 218-223: every removal and the rmdir has its own try, so each can
\* fail on its own (failSet, rmdirFails); rmdir also fails on a non-empty dir
SaveCleanup(failSet, rmdirFails) ==
    /\ pc = "save_cleanup"
    /\ failSet \subseteq SaveCleanupTargets
    /\ files' = files \ (SaveCleanupTargets \ failSet)
    /\ content' = [k \in FileNo |-> IF k \in files' THEN content[k] ELSE NoWav]
    /\ tmpdir' = IF rmdirFails \/ files' # {} THEN tmpdir ELSE "removed"
    /\ rmFailed' = (rmdirFails \/ failSet # {})
    /\ pc' = "done"
    /\ exc' = AfterCleanup(exc, rmdirFails \/ failSet # {} \/ files' # {})
    /\ exitStatus' = StatusOf(exc')
    /\ UNCHANGED << otherVars, n, player, output, i, poolVars, fg, outLog, failures,
                    main_wavs, outfile >>

\* ---- the run -------------------------------------------------------------

Next ==
    \/ StreamEnter
    \/ \E o \in StreamOutcomes : FbReturn(o)
    \/ \E o \in StreamOutcomes : Stream1Return(o)
    \/ LoopWait
    \/ \E o \in StreamOutcomes : PlayReturn(o)
    \/ FinalWait
    \/ PoolExit
    \/ \E f \in 0 .. RmdirFail : Cleanup(f)
    \/ BgStart
    \/ \E idx \in Idx : BgCreate(idx)
    \/ \E idx \in Idx, o \in FileOutcomes : BgReturn(idx, o)
    \/ SaveEnter
    \/ \E o \in FileOutcomes, w \in WavOf(1) : SaveSingleReturn(o, w)
    \/ \E o \in FileOutcomes, w \in WavOf(i) : SaveCallReturn(o, w)
    \/ Concat
    \/ \E fs \in SUBSET FileNo, r \in BOOLEAN : SaveCleanup(fs, r)

Spec == Init /\ [][Next]_vars

\* ---- vocabulary of the properties ----------------------------------------

\* a streaming run that took the prefetch branch (a workspace was made)
PrefetchRun == ~output /\ tmpdir # "none"

\* chunk numbers whose background synthesis has been issued
Issued == { k + 1 : k \in { j \in Idx : futures[j].st # "None" } }

\* chunk numbers for which a play call has been made
Played == { outLog[k][2] : k \in { j \in 1 .. Len(outLog) : outLog[j][1] = "play" } }

\* the number of synthesis-engine calls executing now
SynthCalls == Cardinality(running) + (IF fg.kind \in { "stream", "synth" } THEN 1 ELSE 0)

\* ---- C1 -------------------------------------------------------------------
\* C1: in a prefetch-mode run (n >= 2, a player) in which no call has failed,
\* the k-th audio output is chunk k (chunk 1 by direct streaming, the others by
\* play calls), a finished run has output all n chunks, and an output starts
\* only when no other output of the foreground is in progress.
C1_OrderedOutput ==
    /\ [](( ~output /\ player /\ n >= 2 /\ failures = {} ) =>
            /\ \A k \in 1 .. Len(outLog) :
                   outLog[k] = << IF k = 1 THEN "stream" ELSE "play", k >>
            /\ ( pc = "done" => Len(outLog) = n )
            /\ ( fg # NoCall => fg.chunk = Len(outLog) ))
    /\ [][ ( ~output /\ player /\ n >= 2 /\ Len(outLog') > Len(outLog) )
             => fg = NoCall ]_vars

C1_Witness ==
    /\ ~output /\ player /\ n >= 3
    /\ pc = "done" /\ failures = {}
    /\ Len(outLog) = n /\ outLog[n] = << "play", n >>

\* ---- C2 -------------------------------------------------------------------
\* C2: in a prefetch-mode run in which nothing has failed, while the output of
\* chunk c is in progress (from the moment it starts) the background synthesis
\* of chunk c+1 has been issued when c < n, and that of chunk c+2 has not.
C2_OneAhead ==
    ( PrefetchRun /\ n >= 2 /\ failures = {} /\ fg.kind \in { "stream", "play" } ) =>
        /\ ( fg.chunk < n => fg.chunk + 1 \in Issued )
        /\ fg.chunk + 2 \notin Issued

C2_Witness ==
    /\ PrefetchRun /\ n >= 4 /\ failures = {}
    /\ fg = [kind |-> "play", chunk |-> 2]
    /\ 3 \in Issued /\ 4 \notin Issued

\* ---- C3 -------------------------------------------------------------------
\* C3: if the background synthesis of chunk c (2..n) failed (its future reports
\* a non-zero status, or its file is missing), the failure is propagated at the
\* wait for chunk c: no play call is made for chunk c or any later chunk.
C3_FailedPrefetchNotPlayed ==
    \A f \in failures :
        f.stage = "prefetch" => \A c \in Played : c < f.chunk

C5_OneSynthesisAtATime == ~output => SynthCalls <= 1

\* C5 amended: at most one background synthesis executes at a time, and it
\* overlaps one foreground call: the play call of the chunk before it, or the
\* direct streaming of chunk 1 (then it is the synthesis of chunk 2). In
\* fallback mode no call overlaps another.
C5_OneBackgroundSynthesis ==
    ~output =>
        /\ Cardinality(running) <= 1
        /\ SynthCalls <= 2
        /\ \A k \in running :
              /\ fg.kind = "stream" => ( fg.chunk = 1 /\ k + 1 = 2 )
              /\ fg.kind = "play" => k + 1 = fg.chunk + 1

C5_Witness ==
    /\ ~output
    /\ fg = [kind |-> "stream", chunk |-> 1]
    /\ running = { 1 }
    /\ SynthCalls = 2

\* ---- C6 -------------------------------------------------------------------
\* chunks whose play call has returned successfully
PlayedOk ==
    { c \in Played :
        /\ ~( fg.kind = "play" /\ fg.chunk = c )
        /\ ~\E f \in failures : f.stage = "play" /\ f.chunk = c }

\* C6 as stated: a prefetch-mode run never holds more than two prefetch
\* files, the file of a chunk being deleted right after its successful play.
C6_AtMostTwoFiles ==
    PrefetchRun => ( Cardinality(files) <= 2 /\ \A c \in PlayedOk : c \notin files )

\* C6 amended: the workspace holds at most one file per chunk 2..n whose
\* background synthesis has started or completed (at most n-1 files), and
\* nothing is deleted before the teardown: until then the file of every
\* played chunk is still there.
C6_FilesKeptUntilTeardown ==
    PrefetchRun =>
        /\ files \subseteq { c \in 2 .. n : futures[c - 1].st \in { "running", "done" } }
        /\ ( n >= 2 => Cardinality(files) <= n - 1 )
        /\ ( pc # "done" => Played \subseteq files )

C6_Witness ==
    /\ PrefetchRun /\ n >= 4 /\ pc = "pool_exit"
    /\ PlayedOk = { 2, 3, 4 }
    /\ files = { 2, 3, 4 }

\* ---- C7 -------------------------------------------------------------------
\* nothing failed and every chunk of a non-empty chunk list was put out
\* (streaming) or the output file was written (save)
FullSuccess ==
    /\ n >= 1
    /\ failures = {}
    /\ IF output THEN outfile # NoWav ELSE Len(outLog) = n

\* C7: the exit status of a finished run is zero on full success and non-zero
\* whenever a synthesis call (direct streaming, background prefetch, save to
\* file), a play call or the concatenation of the run failed.
C7_ExitStatus ==
    pc = "done" =>
        /\ ( FullSuccess => exitStatus = 0 )
        /\ ( failures # {} => exitStatus # 0 )

\* ---- C8 -------------------------------------------------------------------
\* a direct streaming or a play call of the run returned a non-zero status
FgStatusFailure ==
    \E f \in failures : f.stage \in { "stream", "play" } /\ ~f.raised

\* C8: once a direct streaming or a play call of a streaming run has returned
\* a non-zero status, no further direct streaming or play call is made, no
\* further background synthesis is issued, and the run ends with a non-zero
\* exit status.
C8_FailureAborts ==
    /\ [][ ( ~output /\ FgStatusFailure ) =>
             ( outLog' = outLog /\ fg' = NoCall /\ Issued' = Issued ) ]_vars
    /\ []( ( ~output /\ FgStatusFailure ) =>
             ( fg = NoCall /\ exc.kind = "SystemExit"
               /\ ( pc = "done" => exitStatus # 0 ) ) )

C8_Witness ==
    /\ PrefetchRun /\ n >= 4 /\ pc = "done"
    /\ \E f \in failures : f.stage = "play" /\ f.chunk = 2 /\ f.rc = 2
    /\ Played = { 2 } /\ Issued = { 2, 3 }
    /\ exitStatus = 1

\* ---- C9 -------------------------------------------------------------------
\* C9: a streaming run without a player, or of exactly one chunk, streams the
\* chunks directly, one after the other in index order, and never issues a
\* background task, never makes a workspace and never makes a temporary file;
\* any other streaming run makes the workspace, streams only chunk 1 directly
\* and puts every later chunk out by a play call.
C9_TotalFallback ==
    ~output =>
        IF ~player \/ n = 1
        THEN /\ tmpdir = "none" /\ files = {}
             /\ Issued = {} /\ queue = << >> /\ running = {}
             /\ \A k \in 1 .. Len(outLog) : outLog[k] = << "stream", k >>
             /\ ( ( pc = "done" /\ failures = {} ) => Len(outLog) = n )
        ELSE /\ ( pc # "start" => tmpdir # "none" )
             /\ \A k \in 1 .. Len(outLog) :
                    outLog[k][1] = ( IF k = 1 THEN "stream" ELSE "play" )

C9_Witness ==
    /\ ~output /\ ~player /\ n >= 3
    /\ pc = "done" /\ exitStatus = 0
    /\ Len(outLog) = n /\ outLog[n] = << "stream", n >>

\* ---- C10 ------------------------------------------------------------------
\* concat_wavs has run on the n >= 2 part files, all of them present
ConcatRan ==
    /\ output /\ pc = "save_cleanup" /\ n >= 2 /\ Len(main_wavs) = n
    /\ \A k \in 1 .. n : PartsOnDisk[k] # NoWav

\* C10: for a non-empty list of files of one audio format, whatever their
\* numbers of frames, concatenate succeeds and writes a file of the first
\* file's format whose frames are the inputs' frames in order.
C10_ConcatSameFormat ==
    ( ConcatRan /\ \A k \in 1 .. n : PartsOnDisk[k].fmt = PartsOnDisk[1].fmt ) =>
        /\ exc = NoExc
        /\ outfile # NoWav
        /\ outfile.fmt = PartsOnDisk[1].fmt
        /\ outfile.frames = Flatten(PartsOnDisk)

\* ==== choose_preset ========================================================

\* lines 7-12
PRESETS ==
    [ en_f |-> << "af_sarah", "en-us" >>,
      en_m |-> << "am_adam", "en-us" >>,
      zh_f |-> << "zf_xiaoxiao", "cmn" >>,
      zh_m |-> << "zm_yunjian", "cmn" >> ]

\* lines 70, 73: the order in which the preset flags are looked at
PresetKeys == << "en_f", "en_m", "zh_f", "zh_m" >>

\* line 14: U+3400-U+4DBF, U+4E00-U+9FFF, U+F900-U+FAFF
IsCjk(c) ==
    \/ c \in 13312 .. 19903
    \/ c \in 19968 .. 40959
    \/ c \in 63744 .. 64255

\* lines 17-18
contains_cjk(s) == \E j \in 1 .. Len(s) : IsCjk(s[j])

\* the code points the texts are drawn from: "A", a Hangul syllable, and
\* both sides of every end of the three ranges
CodePoints ==
    { 65, 44032, 13311, 13312, 19903, 19904, 19967, 19968, 40959, 40960,
      63743, 63744, 64255, 64256 }

RECURSIVE SeqsUpTo(_, _)
SeqsUpTo(S, len) ==
    IF len = 0 THEN { << >> }
    ELSE LET shorter == SeqsUpTo(S, len - 1)
         IN  shorter \cup { Append(t, c) : t \in shorter, c \in S }

\* lines 70-72: a later flag overwrites an earlier one
RECURSIVE PresetLoop(_, _, _)
PresetLoop(keys, a, vl) ==
    IF keys = << >> THEN vl
    ELSE PresetLoop(Tail(keys), a,
                    IF a[Head(keys)] THEN PRESETS[Head(keys)] ELSE vl)

AnyPreset(a) == \E j \in 1 .. Len(PresetKeys) : a[PresetKeys[j]]

\* line 73: when the script of the text is looked at
AutoDetects(a) == ~AnyPreset(a) /\ a.voice = "" /\ a.lang = ""

\* lines 68-80
choose_preset(t, a) ==
    LET preset == PresetLoop(PresetKeys, a, PRESETS["en_f"])
        auto == IF AutoDetects(a) /\ contains_cjk(t)
                THEN PRESETS["zh_f"] ELSE preset
    IN  << IF a.voice # "" THEN a.voice ELSE auto[1],
           IF a.lang # "" THEN a.lang ELSE auto[2] >>

\* the flags and the text of one call (lines 176-181, 186-187)
InitPreset ==
    /\ args \in [ voice : { "", "bm_george" }, lang : { "", "fr-fr" },
                  en_f : BOOLEAN, en_m : BOOLEAN, zh_f : BOOLEAN, zh_m : BOOLEAN ]
    /\ ptext \in SeqsUpTo(CodePoints, MaxText)
    /\ chosen = << "", "" >>
    /\ ppc = "start"
    /\ PipelineIdle
    /\ TextIdle

\* line 190
ChoosePreset ==
    /\ ppc = "start"
    /\ chosen' = choose_preset(ptext, args)
    /\ ppc' = "done"
    /\ UNCHANGED << args, ptext, textVars, n, player, output, pc, i, tmpdir,
                    futures, wavs, files, queue, running, fg, outLog, failures,
                    exc, exitStatus, main_wavs, content, outfile, rmFailed >>

NextPreset == ChoosePreset

SpecPreset == InitPreset /\ [][NextPreset]_vars

\* ---- C11 ------------------------------------------------------------------
\* the value field f (1: voice, 2: lang) may take by the stated precedence
\* when no explicit flag sets it
ByPrecedence(f) ==
    IF AnyPreset(args)
    THEN { PRESETS[PresetKeys[j]][f] :
             j \in { m \in 1 .. Len(PresetKeys) : args[PresetKeys[m]] } }
    ELSE IF \E j \in 1 .. Len(ptext) : IsCjk(ptext[j])
    THEN { PRESETS["zh_f"][f] }
    ELSE { PRESETS["en_f"][f] }

\* C11: voice and language are each resolved by explicit flag > preset flag >
\* script detection > default: a field with an explicit flag takes it; one
\* without takes a set preset's value, and with no preset flag the
\* Chinese-female value when the text holds an ideograph, else the
\* English-female value.
C11_FieldPrecedence ==
    ppc = "done" =>
        /\ chosen[1] \in ( IF args.voice # "" THEN { args.voice } ELSE ByPrecedence(1) )
        /\ chosen[2] \in ( IF args.lang # "" THEN { args.lang } ELSE ByPrecedence(2) )

\* ==== normalize_text, split_into_sentences, chunk_text ======================
\* A text is a sequence of characters.

\* the characters the input texts are drawn from: a letter, a sentence end,
\* a blank and a newline
Chars == { "a", ".", " ", "\n" }

\* what \s matches and strip() strips
IsSpace(c) == c \in { " ", "\n", "\t" }

\* line 15: the characters of the two lookbehind classes, the wide ones
\* written by their code points
IsBoundaryMark(c) ==
    c \in { ".", "!", "?", ";", ":", "U+3002", "U+FF01", "U+FF1F", "U+FF1B",
            "U+FF1A", "U+2026", "U+FF0C", "U+3001" }

RECURSIVE lstrip(_)
lstrip(s) == IF s # << >> /\ IsSpace(Head(s)) THEN lstrip(Tail(s)) ELSE s

RECURSIVE rstrip(_)
rstrip(s) ==
    IF s # << >> /\ IsSpace(s[Len(s)]) THEN rstrip(SubSeq(s, 1, Len(s) - 1)) ELSE s

\* str.strip()
strip(s) == rstrip(lstrip(s))

\* re.sub(r"\s+", " ", s)
RECURSIVE Collapse(_)
Collapse(s) ==
    IF s = << >> THEN << >>
    ELSE IF IsSpace(Head(s)) THEN << " " >> \o Collapse(lstrip(s))
    ELSE << Head(s) >> \o Collapse(Tail(s))

\* lines 20-21
normalize_text(s) == Collapse(strip(s))

\* the index after the run of characters satisfying the class, from q on
RECURSIVE SpaceRunEnd(_, _)
SpaceRunEnd(s, q) ==
    IF q <= Len(s) /\ IsSpace(s[q]) THEN SpaceRunEnd(s, q + 1) ELSE q

RECURSIVE NewlineRunEnd(_, _)
NewlineRunEnd(s, q) ==
    IF q <= Len(s) /\ s[q] = "\n" THEN NewlineRunEnd(s, q + 1) ELSE q

\* line 15: SPLIT_REGEX matched at index q: the index after the match, 0
\* when it does not match there. The lookbehind alternatives come first.
MatchEnd(s, q) ==
    IF q > 1 /\ IsBoundaryMark(s[q - 1]) /\ IsSpace(s[q]) THEN SpaceRunEnd(s, q)
    ELSE IF s[q] = "\n" THEN NewlineRunEnd(s, q)
    ELSE 0

\* SPLIT_REGEX.split(s): the pieces between the leftmost matches
RECURSIVE SplitFrom(_, _, _)
SplitFrom(s, start, q) ==
    IF q > Len(s) THEN << SubSeq(s, start, Len(s)) >>
    ELSE LET e == MatchEnd(s, q)
         IN  IF e = 0 THEN SplitFrom(s, start, q + 1)
             ELSE << SubSeq(s, start, q - 1) >> \o SplitFrom(s, e, e)

\* line 24: [p.strip() for p in ... if p and p.strip()]
RECURSIVE StripKept(_)
StripKept(ps) ==
    IF ps = << >> THEN << >>
    ELSE IF strip(Head(ps)) # << >> THEN << strip(Head(ps)) >> \o StripKept(Tail(ps))
    ELSE StripKept(Tail(ps))

\* line 24: the split units of a text
SplitParts(t) == StripKept(SplitFrom(t, 1, 1))

\* lines 23-25
split_into_sentences(t) ==
    LET parts == SplitParts(t)
    IN  IF parts # << >> THEN parts ELSE << strip(t) >>

\* mutant: the joining blank is not counted
FitsNoSpace(c, sent, m) == Len(c) + Len(sent) <= m

\* line 34
Fits(c, sent, m) == Len(c) + 1 + Len(sent) <= m

\* mutant: the sentence is appended without the blank
Join2NoSpace(c, sent) == c \o sent

\* line 35: f"{cur} {sent}"
Join2(c, sent) == c \o << " " >> \o sent

\* the texts and limits of one call (lines 182, 186)
InitText ==
    /\ raw \in SeqsUpTo(Chars, MaxLen)
    /\ max_chars \in 1 .. MaxChars
    /\ text = << >> /\ sentences = << >> /\ pos = 0
    /\ chunks = << >> /\ cur = << >> /\ groups = << >>
    /\ tpc = "start"
    /\ PipelineIdle
    /\ PresetIdle

pipelineVars == << n, player, output, pc, i, tmpdir, futures, wavs, files,
                   queue, running, fg, outLog, failures, exc, exitStatus,
                   main_wavs, content, outfile, rmFailed >>

\* line 187
Normalize ==
    /\ tpc = "start"
    /\ text' = normalize_text(raw)
    /\ tpc' = "split"
    /\ UNCHANGED << raw, max_chars, sentences, pos, chunks, cur, groups,
                    presetVars, pipelineVars >>

\* lines 28-29
ChunkStart ==
    /\ tpc = "split"
    /\ sentences' = split_into_sentences(text)
    /\ chunks' = << >> /\ cur' = << >> /\ pos' = 0 /\ groups' = << >>
    /\ tpc' = "loop"
    /\ UNCHANGED << raw, max_chars, text, presetVars, pipelineVars >>

\* the group of the running buffer is the last one of groups
WithLast(gs, g) ==
    IF gs = << >> THEN << g >> ELSE [gs EXCEPT ![Len(gs)] = g]

\* lines 30-38: one iteration of the loop
ChunkStep ==
    /\ tpc = "loop"
    /\ pos < Len(sentences)
    /\ LET sent == sentences[pos + 1]
       IN  IF cur = << >>
           THEN /\ cur' = sent
                /\ groups' = WithLast(groups, << sent >>)
                /\ UNCHANGED chunks
           ELSE IF Fits(cur, sent, max_chars)
           THEN /\ cur' = Join2(cur, sent)
                /\ groups' = WithLast(groups, Append(groups[Len(groups)], sent))
                /\ UNCHANGED chunks
           ELSE /\ chunks' = Append(chunks, cur)
                /\ cur' = sent
                /\ groups' = Append(groups, << sent >>)
    /\ pos' = pos + 1
    /\ UNCHANGED << raw, max_chars, text, sentences, tpc, presetVars,
                    pipelineVars >>

\* lines 39-41
ChunkFinish ==
    /\ tpc = "loop"
    /\ pos = Len(sentences)
    /\ IF cur # << >>
       THEN chunks' = Append(chunks, cur) /\ UNCHANGED groups
       ELSE /\ UNCHANGED chunks
            /\ groups' = IF groups = << >> THEN groups
                         ELSE SubSeq(groups, 1, Len(groups) - 1)
    /\ tpc' = "done"
    /\ UNCHANGED << raw, max_chars, text, sentences, pos, cur, presetVars,
                    pipelineVars >>

NextText == Normalize \/ ChunkStart \/ ChunkStep \/ ChunkFinish

SpecText == InitText /\ [][NextText]_vars

\* ---- claims about the segmenter --------------------------------------------

\* the texts joined with single blanks
RECURSIVE JoinSp(_)
JoinSp(ts) ==
    IF ts = << >> THEN << >>
    ELSE IF Len(ts) = 1 THEN ts[1]
    ELSE ts[1] \o << " " >> \o JoinSp(Tail(ts))

\* the groups laid end to end
RECURSIVE Units(_)
Units(gs) == IF gs = << >> THEN << >> ELSE Head(gs) \o Units(Tail(gs))

\* C12: for every text, the empty and the blank ones included, and every
\* max_chars, chunk_text on the normalized text returns at least one chunk;
\* for empty input the one chunk is the trimmed text, and for non-empty input
\* no chunk is the empty string.
C12_NeverEmptyResult ==
    tpc = "done" =>
        /\ Len(chunks) >= 1
        /\ text = << >> => chunks = << strip(text) >>
        /\ text # << >> => \A j \in 1 .. Len(chunks) : chunks[j] # << >>

\* C13: each chunk is at most max_chars long or is exactly one split unit
\* that is itself longer than max_chars; a chunk is its units joined by single
\* blanks, the units taken whole; and a chunk is closed in front of a unit
\* only when the buffer, a blank and that unit together exceed max_chars.
C13_ChunkBound ==
    [][ /\ \A j \in 1 .. Len(chunks') :
              /\ chunks'[j] = JoinSp(groups'[j])
              /\ \/ Len(chunks'[j]) <= max_chars
                 \/ Len(groups'[j]) = 1 /\ Len(groups'[j][1]) > max_chars
        /\ (tpc = "loop" /\ pos' = pos + 1 /\ Len(chunks') > Len(chunks)) =>
              /\ chunks' = Append(chunks, cur)
              /\ Len(cur) + 1 + Len(sentences[pos']) > max_chars ]_vars

\* a text cut in front of its third unit, the first two sharing a chunk
C13_Witness ==
    /\ tpc = "done"
    /\ Len(chunks) = 2
    /\ Len(groups[1]) = 2
    /\ Len(chunks[1]) = max_chars

\* C14: the chunks joined by single blanks, in order, are exactly the
\* whitespace-normalized input text, and every split unit is in exactly one
\* chunk, once, in its original order.
C14_RoundTrip ==
    tpc = "done" =>
        /\ JoinSp(chunks) = normalize_text(raw)
        /\ Len(groups) = Len(chunks)
        /\ Units(groups) = SplitParts(normalize_text(raw))
        /\ \A j \in 1 .. Len(chunks) : chunks[j] = JoinSp(groups[j])

\* a text that normalization changed, returned in several chunks
C14_Witness ==
    /\ tpc = "done"
    /\ Len(chunks) >= 2
    /\ raw # text
    /\ \E j \in 1 .. Len(groups) : Len(groups[j]) >= 2
    /\ JoinSp(chunks) = text

\* ---- claims about concat_wavs in the save path ----------------------------

\* every listed part file is on disk
AllPartsOnDisk == \A k \in 1 .. Len(main_wavs) : PartsOnDisk[k] # NoWav

\* some listed part file has another audio format than the first
FormatMismatch ==
    \E k \in 1 .. Len(main_wavs) : PartsOnDisk[k].fmt # PartsOnDisk[1].fmt

\* C15: concat_wavs fails with the empty-input error (ValueError) on an empty
\* list and with the format-mismatch error (RuntimeError) when a file's format
\* differs from the first file's; in both cases nothing is written at the
\* output path.
C15_ConcatErrors ==
    [][ pc = "concat" =>
          /\ main_wavs = << >> =>
                exc'.kind = "ValueError" /\ outfile' = NoWav
          /\ (main_wavs # << >> /\ AllPartsOnDisk /\ FormatMismatch) =>
                exc'.kind = "RuntimeError" /\ outfile' = NoWav ]_vars

\* the concatenation of parts of two formats has been refused
C15_Witness ==
    /\ output /\ pc = "save_cleanup"
    /\ Len(main_wavs) = n /\ n >= 2
    /\ AllPartsOnDisk /\ FormatMismatch
    /\ exc.kind = "RuntimeError"
    /\ outfile = NoWav

\* ---- claims about the teardown of the save path ---------------------------

\* C16: in the save-to-file path, however the run ends (success, a failed
\* engine call at any chunk, a failed call that left a file at its target, a
\* failed concatenation), every part file created has been deleted and the
\* temporary directory is gone when the run has ended. Runs in which a
\* deletion itself was refused are left aside.
C16_SaveCleaned ==
    (output /\ pc = "done" /\ ~rmFailed) => files = {} /\ tmpdir = "removed"

\* ---- claims about the background tasks ------------------------------------

\* indices of the tasks submitted and not yet completed
InFlight == { k \in Idx : futures[k].st \in { "pending", "running" } }

\* C17: in a prefetch-mode run at most one background task is submitted and
\* not completed; the task of a chunk is issued only after the future of the
\* chunk before it has completed, so no task is queued behind a running one
\* and no synthesis starts before the one before it has returned.
C17_OneTaskInFlight ==
    PrefetchRun =>
        /\ Cardinality(InFlight) <= 1
        /\ Len(queue) + Cardinality(running) <= 1
        /\ \A k \in Idx :
              ( k >= 2 /\ futures[k].st # "None" ) =>
                    futures[k - 1].st \in { "done", "raised" }

\* the task of chunk 3 or later is running, the one before it is done
C17_Witness ==
    /\ PrefetchRun
    /\ \E k \in Idx : /\ k >= 2
                      /\ k \in running
                      /\ futures[k - 1].st = "done"

\* C18: a play call of chunk c (2..n) executes only when the background task
\* of chunk c has completed: the file being played is not being written, and
\* no task writing the file of a played chunk is queued or running afterwards.
C18_PlayAfterSynthesis ==
    PrefetchRun =>
        /\ fg.kind = "play" =>
              /\ futures[fg.chunk - 1].st = "done"
              /\ fg.chunk \in files
        /\ \A c \in Played :
              /\ futures[c - 1].st = "done"
              /\ c - 1 \notin running
              /\ c - 1 \notin Range(queue)

\* chunk 3 is being played while the task of chunk 4 is writing its file
C18_Witness ==
    /\ PrefetchRun
    /\ fg = [kind |-> "play", chunk |-> 3]
    /\ 3 \in running
    /\ { 3, 4 } \subseteq files

\* C19: no background task outlives the pipeline: on every exit path, an
\* abort while a prefetch is running included, the cleanup starts only after
\* every issued task has completed, and no temporary file appears once the
\* cleanup has started.
C19_NoTaskOutlivesPipeline ==
    /\ []( ( PrefetchRun /\ pc \in { "cleanup", "done" } ) =>
              /\ InFlight = {}
              /\ queue = << >>
              /\ running = {} )
    /\ [][ ( ~output /\ pc \in { "cleanup", "done" } ) => files' \subseteq files ]_vars

\* the cleanup is about to run after a play call failed; the prefetch issued
\* just before that call has completed and left its file
C19_Witness ==
    /\ PrefetchRun
    /\ pc = "cleanup"
    /\ \E f \in failures : /\ f.stage = "play"
                           /\ f.chunk \in Idx
                           /\ futures[f.chunk].st = "done"
                           /\ f.chunk + 1 \in files

\* C20: an exception of a deletion during the teardown is swallowed: the
\* teardown leaves the propagating exception as it was, and the run ends with
\* status 0 when none was propagating and with a non-zero status otherwise,
\* in the streaming pipeline and in the save path.
C20_TeardownKeepsOutcome ==
    [][ ( pc = "cleanup" \/ pc = "save_cleanup" ) =>
          ( /\ pc' = "done"
            /\ exc' = exc
            /\ exc = NoExc => exitStatus' = 0
            /\ exc # NoExc => exitStatus' # 0 ) ]_vars

\* a failed run whose teardown also failed has ended with its diagnostic
C20_Witness ==
    /\ pc = "done"
    /\ rmFailed
    /\ exc.kind = "SystemExit" /\ exc.code # 0
    /\ exitStatus = 1

====
